---- MODULE Spec2Model ----
(***************************************************************************)
(* rlox: the bytecode chunk (src/src/chunk.rs), the stack virtual machine  *)
(* (src/src/vm.rs) and the scanner (src/src/scanner.rs), as a state        *)
(* machine.                                                                *)
(*                                                                         *)
(* A value of the machine is an f32.  It is written here as a record       *)
(*   [k |-> "fin", s |-> sign, n |-> numerator, d |-> denominator]         *)
(*   [k |-> "inf", s |-> sign, n |-> 0, d |-> 1]                           *)
(*   [k |-> "nan", s |-> 1,    n |-> 0, d |-> 1]                           *)
(* with IEEE-754 signed zeros and infinities.  The constants the model     *)
(* feeds to the machine are small powers of two and zero, and the programs *)
(* are a few instructions long, so every finite result is exactly          *)
(* representable in an f32 and no rounding takes place.                    *)
(***************************************************************************)
EXTENDS Integers, Sequences, FiniteSets, TLC

VARIABLES
    chunk,      \* Chunk: [code, constants, line_info, first_line]
    written,    \* history: the line passed to the write that produced each byte of chunk.code
    endian,     \* the build target's byte order, "le" or "be" (u32::to_ne_bytes)
    debug,      \* whether the build has debug_assertions
    status,     \* "Idle", "Running", "HaltedOk", "HaltedError" or "Crashed" (a panic)
    ip,         \* VM.ip
    stack,      \* VM.stack
    printed,    \* the values println! has written, oldest first
    error,      \* the byte carried by the last Err(..) of interpret, -1 when none
    ret,        \* the last value returned by add_constant, -1 when none
    calls,      \* the number of interpret calls begun on this VM
    source,     \* the text the Scanner was constructed over, a sequence of characters
    current,    \* Scanner.current: the characters the iterator has not yielded yet
    line,       \* Scanner.line
    position,   \* Scanner.position
    returned,   \* history: what each scan_token call returned, oldest first
    matching_token, \* the value of scan_token's local matching_token in the last call
    skipping,   \* TRUE while control is inside skip_whitespace's outer loop
    iterations, \* history: the iterations of skip_whitespace's outer loop begun so far
    dis         \* Chunk::disassemble: [state, offset, prev_line, at, last]

scanVars == <<source, current, line, position, returned, matching_token, skipping,
              iterations>>

vars == <<chunk, written, endian, debug, status, ip, stack, printed, error, ret, calls,
          scanVars, dis>>

---------------------------------------------------------------------------
(* Bounds of the model *)

MaxLine == 3
MaxCode == 6
MaxItems == 3
MaxReuseItems == 2
MaxInterprets == 2
MaxSrc == 3
MaxScans == 4
MaxIterations == 4

(* Program constants *)

U8Range == 256

OP_RETURN == 0
OP_CONSTANT == 1
OP_CONSTANT_LONG == 2
OP_NEGATE == 3
OP_ADD == 4
OP_SUBTRACT == 5
OP_MULTIPLY == 6
OP_DIVIDE == 7

---------------------------------------------------------------------------
(* f32 arithmetic *)

RECURSIVE GCD(_, _)
GCD(a, b) == IF b = 0 THEN a ELSE GCD(b, a % b)

Fin(s, n, d) ==
    LET g == GCD(n, d)
    IN  [k |-> "fin", s |-> s, n |-> n \div g, d |-> d \div g]

Inf(s) == [k |-> "inf", s |-> s, n |-> 0, d |-> 1]

NaN == [k |-> "nan", s |-> 1, n |-> 0, d |-> 1]

F(i) == IF i < 0 THEN Fin(-1, -i, 1) ELSE Fin(1, i, 1)

IsZero(a) == a.k = "fin" /\ a.n = 0

FMul(a, b) ==
    IF a.k = "nan" \/ b.k = "nan" THEN NaN
    ELSE IF a.k = "inf" \/ b.k = "inf"
         THEN IF IsZero(a) \/ IsZero(b) THEN NaN ELSE Inf(a.s * b.s)
    ELSE Fin(a.s * b.s, a.n * b.n, a.d * b.d)

FDiv(a, b) ==
    IF a.k = "nan" \/ b.k = "nan" THEN NaN
    ELSE IF a.k = "inf"
         THEN IF b.k = "inf" THEN NaN ELSE Inf(a.s * b.s)
    ELSE IF b.k = "inf" THEN Fin(a.s * b.s, 0, 1)
    ELSE IF b.n = 0
         THEN IF a.n = 0 THEN NaN ELSE Inf(a.s * b.s)
    ELSE Fin(a.s * b.s, a.n * b.d, a.d * b.n)

FAdd(a, b) ==
    IF a.k = "nan" \/ b.k = "nan" THEN NaN
    ELSE IF a.k = "inf"
         THEN IF b.k = "inf" /\ b.s # a.s THEN NaN ELSE a
    ELSE IF b.k = "inf" THEN b
    ELSE LET t == a.s * a.n * b.d + b.s * b.n * a.d
         IN  IF t = 0
             THEN Fin(IF IsZero(a) /\ IsZero(b) /\ a.s = -1 /\ b.s = -1 THEN -1 ELSE 1, 0, 1)
             ELSE IF t < 0 THEN Fin(-1, -t, a.d * b.d) ELSE Fin(1, t, a.d * b.d)

FSub(a, b) == FAdd(a, IF b.k = "nan" THEN NaN ELSE [b EXCEPT !.s = -b.s])

---------------------------------------------------------------------------
(* Option<T>: None is the empty sequence, Some(x) the sequence <<x>> *)

None == <<>>
Some(x) == <<x>>

---------------------------------------------------------------------------
(* Chunk *)

NewChunk == [code |-> <<>>, constants |-> <<>>, line_info |-> <<>>, first_line |-> 0]

\* line_info[line_no - first_line]: the subtraction underflows, or the index is
\* out of bounds, when line_no is before first_line; both panic.
line_info_panics(c, line_no) ==
    /\ c.first_line # 0
    /\ ~(line_no > Len(c.line_info) - 1 + c.first_line)
    /\ line_no < c.first_line

determine_line_info(c, line_no) ==
    IF c.first_line = 0
    THEN [c EXCEPT !.first_line = line_no, !.line_info = Append(@, 1)]
    ELSE IF line_no > Len(c.line_info) - 1 + c.first_line
         THEN [c EXCEPT !.line_info = Append(@, 1)]
         ELSE [c EXCEPT !.line_info[line_no - c.first_line + 1] = @ + 1]

write(c, byte, line_no) ==
    LET c1 == determine_line_info(c, line_no)
    IN  [c1 EXCEPT !.code = Append(@, byte)]

to_ne_bytes(i, order) ==
    LET le == << i % 256, (i \div 256) % 256, (i \div 65536) % 256, (i \div 16777216) % 256 >>
    IN  IF order = "le" THEN le ELSE << le[4], le[3], le[2], le[1] >>

write_constant(c, constant_index, line_no, order) ==
    LET c1 == determine_line_info(c, line_no)
    IN  [c1 EXCEPT !.code = @ \o to_ne_bytes(constant_index, order)]

RECURSIVE get_line_from(_, _, _, _)
get_line_from(c, instr_index, line_index, line_offset) ==
    IF line_index >= Len(c.line_info) THEN 0
    ELSE LET line_count == c.line_info[line_index + 1]
         IN  IF line_offset + line_count <= instr_index
             THEN get_line_from(c, instr_index, line_index + 1, line_offset + line_count)
             ELSE line_index + c.first_line

get_line(c, instr_index) == get_line_from(c, instr_index, 0, 0)

\* add_constant pushes first and converts the new length - 1 to a u8 afterwards;
\* the conversion's unwrap panics when the position does not fit in a u8.
add_constant_panics(c) == ~(Len(c.constants) < U8Range)

add_constant_chunk(c, value) == [c EXCEPT !.constants = Append(@, value)]

\* mutant: the length after the push is returned, not the position of the value
add_constant_ret_len(c, value) == Len(add_constant_chunk(c, value).constants)

add_constant_ret(c, value) == Len(add_constant_chunk(c, value).constants) - 1

get_code(c, index) ==
    IF index < Len(c.code) THEN Some(c.code[index + 1]) ELSE None

get_constant(c, index) ==
    IF index < Len(c.constants) THEN Some(c.constants[index + 1]) ELSE None

RECURSIVE Sum(_)
Sum(s) == IF s = <<>> THEN 0 ELSE Head(s) + Sum(Tail(s))

---------------------------------------------------------------------------
(* Scanner.  A character is a one-character string; a Token is a record    *)
(* [kind, start, end, kw]: start is the token's first usize, end the       *)
(* second one of a literal (0 otherwise), kw the word of a Keyword's kind. *)
(* A Result is [r |-> "Ok", tok |-> token] or [r |-> "Err", tok |-> e].    *)

Token1(kind, p) == [kind |-> kind, start |-> p, end |-> 0, kw |-> <<>>]
Token2(kind, a, b) == [kind |-> kind, start |-> a, end |-> b, kw |-> <<>>]
Keyword(p, word) == [kind |-> "Keyword", start |-> p, end |-> 0, kw |-> word]
NoToken == Token1("None", 0)

Ok(tok) == [r |-> "Ok", tok |-> tok]
Err(e) == [r |-> "Err", tok |-> Token1(e, 0)]

Keywords ==
    { <<"a","n","d">>, <<"c","l","a","s","s">>, <<"e","l","s","e">>,
      <<"f","a","l","s","e">>, <<"f","o","r">>, <<"f","u","n">>, <<"i","f">>,
      <<"n","i","l">>, <<"o","r">>, <<"p","r","i","n","t">>,
      <<"r","e","t","u","r","n">>, <<"s","u","p","e","r">>, <<"t","h","i","s">>,
      <<"t","r","u","e">>, <<"v","a","r">>, <<"w","h","i","l","e">> }

is_ascii_digit(c) == c \in {"0", "1", "2", "3", "4", "5", "6", "7", "8", "9"}

is_ascii_alphabetic(c) ==
    c \in {"a","b","c","d","e","f","g","h","i","j","k","l","m","n","o","p","q","r","s",
           "t","u","v","w","x","y","z",
           "A","B","C","D","E","F","G","H","I","J","K","L","M","N","O","P","Q","R","S",
           "T","U","V","W","X","Y","Z"}

is_ascii_alphanumeric(c) == is_ascii_alphabetic(c) \/ is_ascii_digit(c)

ScannerNew(text) == [current |-> text, line |-> 1, position |-> 1]

\* is_at_end is self.current.clone().peek().is_some()
is_at_end(sc) == sc.current # <<>>

\* advance: [sc |-> the scanner afterwards, c |-> Option<char>]
advance(sc) ==
    [sc |-> [sc EXCEPT !.position = @ + 1,
                       !.current = IF @ = <<>> THEN @ ELSE Tail(@)],
     c  |-> IF sc.current = <<>> THEN None ELSE Some(Head(sc.current))]

peek(sc) == IF sc.current = <<>> THEN None ELSE Some(sc.current[1])

peek_next(sc) == IF Len(sc.current) < 2 THEN None ELSE Some(sc.current[2])

peek_is(sc, c) == peek(sc) # None /\ peek(sc)[1] = c

RECURSIVE scan_string_loop(_)
scan_string_loop(sc) ==
    IF peek(sc) # None /\ peek(sc)[1] # "\"" /\ ~is_at_end(sc)
    THEN scan_string_loop(
             advance(IF peek_is(sc, "\n") THEN [sc EXCEPT !.line = @ + 1] ELSE sc).sc)
    ELSE sc

is_whitespace(c) == c \in {" ", "\n", "\t", "\r"}

\* skip_whitespace's inner loop over a // comment
RECURSIVE skip_comment_loop(_)
skip_comment_loop(sc) ==
    IF peek(sc) # None /\ peek(sc)[1] # "\n" /\ ~is_at_end(sc)
    THEN skip_comment_loop(advance(sc).sc)
    ELSE sc

\* one iteration of skip_whitespace's outer loop, the while-let test included:
\* [sc |-> the scanner afterwards, again |-> whether the loop goes on]
skip_whitespace_iteration(sc) ==
    IF peek(sc) = None THEN [sc |-> sc, again |-> FALSE]
    ELSE LET c == peek(sc)[1]
         IN  IF is_whitespace(c)
             THEN [sc |-> advance(sc).sc, again |-> TRUE]
             ELSE IF c = "\n"
             THEN [sc |-> advance([sc EXCEPT !.line = @ + 1]).sc, again |-> TRUE]
             ELSE IF c = "/"
             THEN [sc |-> IF peek_next(sc) = Some("/") THEN skip_comment_loop(sc) ELSE sc,
                   again |-> TRUE]
             ELSE [sc |-> sc, again |-> FALSE]

\* the scan_* functions and the arms of the match: [sc |-> scanner, res |-> Result]
scan_string(sc) ==
    LET start_position == sc.position
        s1 == scan_string_loop(sc)
    IN  IF is_at_end(s1) THEN [sc |-> s1, res |-> Err("UnterminatedString")]
        ELSE LET s2 == advance(s1).sc
             IN  [sc |-> s2, res |-> Ok(Token2("String", start_position, s2.position))]

RECURSIVE skip_digits(_)
skip_digits(sc) ==
    IF peek(sc) # None /\ is_ascii_digit(peek(sc)[1])
    THEN skip_digits(advance(sc).sc)
    ELSE sc

scan_number(sc) ==
    LET start_position == sc.position
        s1 == skip_digits(sc)
        s2 == IF peek_is(s1, ".") /\ peek_next(s1) # None /\ is_ascii_digit(peek_next(s1)[1])
              THEN skip_digits(advance(s1).sc)
              ELSE s1
    IN  [sc |-> s2, res |-> Ok(Token2("Number", start_position, s2.position))]

\* the loop of scan_identifier: [sc |-> scanner, buffer |-> the characters pushed]
RECURSIVE scan_identifier_loop(_, _)
scan_identifier_loop(sc, buffer) ==
    IF peek(sc) # None /\ (is_ascii_alphanumeric(peek(sc)[1]) \/ peek(sc)[1] = "_")
    THEN scan_identifier_loop(advance(sc).sc, Append(buffer, peek(sc)[1]))
    ELSE [sc |-> sc, buffer |-> buffer]

scan_identifier(sc) ==
    LET start_position == sc.position
        l == scan_identifier_loop(sc, <<>>)
    IN  IF l.buffer \in Keywords
        THEN [sc |-> l.sc, res |-> Ok(Keyword(start_position, l.buffer))]
        ELSE [sc |-> l.sc, res |-> Ok(Token2("Identifier", start_position, l.sc.position))]

\* the arms of '!', '=', '<' and '>'
operator_arm(sc, short, long) ==
    IF peek_is(sc, "=")
    THEN LET s1 == advance(sc).sc
         IN  [sc |-> s1, res |-> Ok(Token1(long, s1.position))]
    ELSE [sc |-> sc, res |-> Ok(Token1(short, sc.position))]

single_character_kind(c) ==
    CASE c = "(" -> "LeftParen"
      [] c = ")" -> "RightParen"
      [] c = "{" -> "LeftBrace"
      [] c = "}" -> "RightBrace"
      [] c = ";" -> "Semicolon"
      [] c = "," -> "Comma"
      [] c = "." -> "Dot"
      [] c = "-" -> "Minus"
      [] c = "+" -> "Plus"
      [] c = "/" -> "Slash"
      [] c = "*" -> "Star"
      [] OTHER   -> "None"

\* match c { .. }, the scanner having advanced past c
match_char(sc, c) ==
    IF single_character_kind(c) # "None"
    THEN [sc |-> sc, res |-> Ok(Token1(single_character_kind(c), sc.position))]
    ELSE CASE c = "!" -> operator_arm(sc, "Bang", "BangEqual")
           [] c = "=" -> operator_arm(sc, "Equal", "EqualEqual")
           [] c = "<" -> operator_arm(sc, "Less", "LessEqual")
           [] c = ">" -> operator_arm(sc, "Greater", "GreaterEqual")
           [] c = "\"" -> scan_string(sc)
           [] is_ascii_digit(c) \/ c = "_" -> scan_number(sc)
           [] is_ascii_alphabetic(c) -> scan_identifier(sc)
           [] OTHER -> [sc |-> sc, res |-> Err("UnrecognizedCharacter")]

\* what scan_token does after the if-let: the value of the match is dropped
scan_token_tail(sc) ==
    IF is_at_end(sc)
    THEN Ok(Token1("EOF", sc.position))
    ELSE Err("UnrecognizedCharacter")

\* scan_token: [sc |-> scanner, ret |-> the Result returned,
\*              matching_token |-> the token the match produced, NoToken when none]
scan_token(sc) ==
    LET a == advance(sc)
    IN  IF a.c = None
        THEN [sc |-> a.sc, ret |-> scan_token_tail(a.sc), matching_token |-> NoToken]
        ELSE LET m == match_char(a.sc, a.c[1])
             IN  IF m.res.r = "Err"
                 THEN [sc |-> m.sc, ret |-> m.res, matching_token |-> NoToken]
                 ELSE [sc |-> m.sc, ret |-> scan_token_tail(m.sc),
                       matching_token |-> m.res.tok]

\* Chunk::disassemble not running: offset and prev_line are its locals, at the
\* offset of its last disassemble_instruction call and last what that returned
DisIdle == [state |-> "Idle", offset |-> 0, prev_line |-> 0, at |-> 0,
            last |-> [r |-> "None", n |-> 0]]

---------------------------------------------------------------------------
(* The chunk under construction: Chunk's mutators as actions *)

Init ==
    /\ chunk = NewChunk
    /\ written = <<>>
    /\ endian \in {"le", "be"}
    /\ debug \in BOOLEAN
    /\ status = "Idle"
    /\ ip = 0
    /\ stack = <<>>
    /\ printed = <<>>
    /\ error = -1
    /\ ret = -1
    /\ calls = 0
    /\ source = <<>>
    /\ current = ScannerNew(source).current
    /\ line = ScannerNew(source).line
    /\ position = ScannerNew(source).position
    /\ returned = <<>>
    /\ matching_token = NoToken
    /\ skipping = FALSE
    /\ iterations = 0
    /\ dis = DisIdle

Write(byte, line_no) ==
    /\ status = "Idle"
    /\ IF line_info_panics(chunk, line_no)
       THEN /\ status' = "Crashed"
            /\ UNCHANGED <<chunk, written>>
       ELSE /\ chunk' = write(chunk, byte, line_no)
            /\ written' = Append(written, line_no)
            /\ UNCHANGED status
    /\ UNCHANGED <<scanVars, dis, endian, debug, ip, stack, printed, error, ret, calls>>

WriteConstant(constant_index, line_no) ==
    /\ status = "Idle"
    /\ IF line_info_panics(chunk, line_no)
       THEN /\ status' = "Crashed"
            /\ UNCHANGED <<chunk, written>>
       ELSE /\ chunk' = write_constant(chunk, constant_index, line_no, endian)
            /\ written' = written \o <<line_no, line_no, line_no, line_no>>
            /\ UNCHANGED status
    /\ UNCHANGED <<scanVars, dis, endian, debug, ip, stack, printed, error, ret, calls>>

AddConstant(value) ==
    /\ status = "Idle"
    /\ chunk' = add_constant_chunk(chunk, value)
    /\ IF add_constant_panics(chunk)
       THEN /\ status' = "Crashed"
            /\ UNCHANGED ret
       ELSE /\ ret' = add_constant_ret(chunk, value)
            /\ UNCHANGED status
    /\ UNCHANGED <<scanVars, dis, written, endian, debug, ip, stack, printed, error, calls>>

---------------------------------------------------------------------------
(* OpCode *)

try_from(value) ==
    IF value \in {OP_RETURN, OP_CONSTANT, OP_CONSTANT_LONG, OP_NEGATE,
                  OP_ADD, OP_SUBTRACT, OP_MULTIPLY, OP_DIVIDE}
    THEN Some(value)
    ELSE None

---------------------------------------------------------------------------
(* Chunk::disassemble_instruction: [r |-> "Ok", n |-> width], [r |-> "Err", n |-> 0], *)
(* or [r |-> "Panic", n |-> 0] when one of its unwraps meets None                *)

disassemble_instruction(c, offset) ==
    LET instruction == get_code(c, offset)
    IN  IF instruction = None THEN [r |-> "Err", n |-> 0]
        ELSE LET opcode == try_from(instruction[1])
             IN  IF opcode = None THEN [r |-> "Ok", n |-> 1]
                 ELSE IF opcode[1] \in {OP_CONSTANT, OP_CONSTANT_LONG}
                      THEN LET constant_index == get_code(c, offset + 1)
                           IN  IF constant_index = None THEN [r |-> "Panic", n |-> 0]
                               ELSE IF get_constant(c, constant_index[1]) = None
                                    THEN [r |-> "Panic", n |-> 0]
                               ELSE [r |-> "Ok", n |-> IF opcode[1] = OP_CONSTANT THEN 2 ELSE 5]
                      ELSE [r |-> "Ok", n |-> 1]

---------------------------------------------------------------------------
(* VM *)

Pop(stk) == SubSeq(stk, 1, Len(stk) - 1)
Last(stk) == stk[Len(stk)]

apply_op(op, a, b) ==
    CASE op = OP_ADD      -> FAdd(a, b)
      [] op = OP_SUBTRACT -> FSub(a, b)
      [] op = OP_MULTIPLY -> FMul(a, b)
      [] op = OP_DIVIDE   -> FDiv(a, b)

\* binary_op!: a is the first value popped, b the second; an unwrap on an
\* empty stack panics, the first pop having already taken place.
binary_op(stk, op) ==
    IF stk = <<>> THEN [panic |-> TRUE, stack |-> stk]
    ELSE LET a == Last(stk)
             s1 == Pop(stk)
         IN  IF s1 = <<>> THEN [panic |-> TRUE, stack |-> s1]
             ELSE LET b == Last(s1)
                      s2 == Pop(s1)
                  IN  [panic |-> FALSE, stack |-> Append(s2, apply_op(op, a, b))]

\* mutant: Return prints the top of the stack and lets the loop go on
op_return_continue(m) ==
    LET stack_top == IF m.stack = <<>> THEN F(0) ELSE Last(m.stack)
    IN  [m EXCEPT !.stack = IF @ = <<>> THEN @ ELSE Pop(@),
                  !.printed = Append(@, stack_top)]

op_return(m) ==
    LET stack_top == IF m.stack = <<>> THEN F(0) ELSE Last(m.stack)
    IN  [m EXCEPT !.stack = IF @ = <<>> THEN @ ELSE Pop(@),
                  !.printed = Append(@, stack_top),
                  !.status = "HaltedOk"]

op_constant(c, m) ==
    LET constant_index == get_code(c, m.ip)
    IN  IF constant_index = None THEN [m EXCEPT !.status = "Crashed"]
        ELSE LET constant_value == get_constant(c, constant_index[1])
             IN  IF constant_value = None THEN [m EXCEPT !.status = "Crashed"]
                 ELSE [m EXCEPT !.stack = Append(@, constant_value[1]),
                                !.ip = @ + 1]

op_negate(m) ==
    IF m.stack = <<>> THEN [m EXCEPT !.status = "Crashed"]
    ELSE [m EXCEPT !.stack[Len(m.stack)] = FMul(@, F(-1))]

op_binary(m, op) ==
    LET r == binary_op(m.stack, op)
    IN  [m EXCEPT !.stack = r.stack,
                  !.status = IF r.panic THEN "Crashed" ELSE @]

\* mutant: an unknown byte is skipped
op_unknown_skip(m, instruction_byte) ==
    IF try_from(instruction_byte) = None THEN [m EXCEPT !.ip = @ + 1]
    ELSE [m EXCEPT !.status = "HaltedError", !.error = instruction_byte]

op_unknown(m, instruction_byte) ==
    [m EXCEPT !.status = "HaltedError", !.error = instruction_byte]

\* the match on the decoded instruction, self.ip already advanced past the tag
execute(c, m, instruction, instruction_byte) ==
    CASE instruction = OP_RETURN   -> op_return(m)
      [] instruction = OP_CONSTANT -> op_constant(c, m)
      [] instruction = OP_NEGATE   -> op_negate(m)
      [] instruction \in {OP_ADD, OP_SUBTRACT, OP_MULTIPLY, OP_DIVIDE} -> op_binary(m, instruction)
      [] OTHER                     -> op_unknown(m, instruction_byte)

\* one iteration of interpret's loop on the machine m = [ip, stack, status, printed, error]
interpret_step(c, m, dbg) ==
    LET fetched == get_code(c, m.ip)
    IN  IF fetched = None THEN [m EXCEPT !.status = "Crashed"]
        ELSE LET instruction_byte == fetched[1]
                 decoded == try_from(instruction_byte)
             IN  IF decoded = None THEN op_unknown(m, instruction_byte)
                 ELSE IF dbg /\ disassemble_instruction(c, m.ip).r # "Ok"
                      THEN [m EXCEPT !.status = "Crashed"]
                 ELSE execute(c, [m EXCEPT !.ip = @ + 1], decoded[1], instruction_byte)

Machine == [ip |-> ip, stack |-> stack, status |-> status, printed |-> printed, error |-> error]

\* interpret(source): a new chunk is filled by the compiler, then the loop
\* starts; self.ip and self.stack are what the previous call left.
Interpret(c) ==
    /\ status \in {"Idle", "HaltedOk", "HaltedError"}
    /\ chunk' = c
    /\ status' = "Running"
    /\ error' = -1
    /\ calls' = calls + 1
    /\ UNCHANGED <<scanVars, dis, written, endian, debug, ip, stack, printed, ret>>

Step ==
    /\ status = "Running"
    /\ LET m == interpret_step(chunk, Machine, debug)
       IN  /\ ip' = m.ip
           /\ stack' = m.stack
           /\ status' = m.status
           /\ printed' = m.printed
           /\ error' = m.error
    /\ UNCHANGED <<scanVars, dis, chunk, written, endian, debug, ret, calls>>

---------------------------------------------------------------------------
(* The chunks handed to the machine: what a compiler emits through Chunk's *)
(* write contract, up to a number of emitted items, all on line 1         *)

Values == {F(0), F(2)}
Bytes == 0..8 \cup {255}

EmitConstant(c, value) ==
    LET index == add_constant_ret(c, value)
        c1 == add_constant_chunk(c, value)
    IN  write(write(c1, OP_CONSTANT, 1), index, 1)

EmitConstantLong(c, value, order) ==
    LET index == add_constant_ret(c, value)
        c1 == add_constant_chunk(c, value)
    IN  write_constant(write(c1, OP_CONSTANT_LONG, 1), index, 1, order)

RECURSIVE Compiled(_, _)
Compiled(n, order) ==
    IF n = 0 THEN {NewChunk}
    ELSE LET P == Compiled(n - 1, order)
         IN  P \cup {write(c, b, 1) : c \in P, b \in Bytes}
               \cup {EmitConstant(c, v) : c \in P, v \in Values}
               \cup {EmitConstantLong(c, v, order) : c \in P, v \in Values}

NextVM ==
    \/ /\ calls = 0
       /\ \E c \in Compiled(MaxItems, endian) : Interpret(c)
    \/ Step

SpecVM == Init /\ [][NextVM]_vars

NextReuse ==
    \/ /\ calls < MaxInterprets
       /\ status # "Running"
       /\ \E c \in Compiled(MaxReuseItems, endian) : Interpret(c)
    \/ Step

SpecReuse == Init /\ [][NextReuse]_vars

---------------------------------------------------------------------------
(* Chunk::disassemble (debug builds only) on a chunk the compiler emitted, *)
(* one action per iteration of its loop                                    *)

DisassembleBegin(c) ==
    /\ chunk' = c
    /\ dis' = [DisIdle EXCEPT !.state = "Running"]
    /\ UNCHANGED <<scanVars, written, endian, debug, status, ip, stack, printed, error,
                   ret, calls>>

DisassembleStep ==
    /\ dis.state = "Running"
    /\ IF dis.offset < Len(chunk.code)
       THEN LET instr_line == get_line(chunk, dis.offset)
                r == disassemble_instruction(chunk, dis.offset)
            IN  IF r.r # "Ok"
                THEN dis' = [dis EXCEPT !.state = "Crashed", !.at = dis.offset, !.last = r]
                ELSE dis' = [state |-> "Running",
                             offset |-> dis.offset + r.n,
                             prev_line |-> instr_line,
                             at |-> dis.offset,
                             last |-> r]
       ELSE dis' = [dis EXCEPT !.state = "Done"]
    /\ UNCHANGED <<scanVars, chunk, written, endian, debug, status, ip, stack, printed,
                   error, ret, calls>>

NextDis ==
    \/ /\ debug
       /\ dis.state = "Idle"
       /\ \E c \in Compiled(MaxItems, endian) : DisassembleBegin(c)
    \/ DisassembleStep

SpecDis == Init /\ [][NextDis]_vars

---------------------------------------------------------------------------
(* Line index: writes with non-decreasing line numbers *)

Lines == 1..MaxLine
LineBytes == {OP_RETURN, OP_NEGATE}
LongIndexes == {0, 258}

LastLine == IF written = <<>> THEN 0 ELSE written[Len(written)]

NextWrite ==
    \E byte \in LineBytes, line_no \in Lines :
        /\ Len(chunk.code) < MaxCode
        /\ line_no >= LastLine
        /\ Write(byte, line_no)

NextLines ==
    \/ \E byte \in LineBytes, line_no \in Lines :
        /\ Len(chunk.code) < MaxCode
        /\ line_no >= LastLine
        /\ Write(byte, line_no)
    \/ \E constant_index \in LongIndexes, line_no \in Lines :
        /\ Len(chunk.code) + 4 <= MaxCode
        /\ line_no >= LastLine
        /\ WriteConstant(constant_index, line_no)

SpecWrite == Init /\ [][NextWrite]_vars

SpecLines == Init /\ [][NextLines]_vars

\* C1: after any sequence of write / write_constant calls with non-decreasing
\* line numbers, the run-lengths of line_info add up to the number of bytes in
\* code (write_constant recording each of its 4 bytes against the line).
C1_LineInfoSumsToCodeLen == Sum(chunk.line_info) = Len(chunk.code)

\* C2: for every byte offset below code.len(), get_line(offset) is the line
\* number passed to the write call that produced the byte at that offset, for
\* writes on the same line, the next line or a later line.
C2_GetLineRecoversWrittenLine ==
    \A offset \in 0..(Len(chunk.code) - 1) :
        get_line(chunk, offset) = written[offset + 1]

---------------------------------------------------------------------------
(* Constant pool: add_constant alone *)

PoolValues == {F(2)}

NextPool == \E value \in PoolValues : AddConstant(value)

SpecPool == Init /\ [][NextPool]_vars

---------------------------------------------------------------------------
(* Claims about the machine *)

Fetched == get_code(chunk, ip)

Fetching(op) == status = "Running" /\ Fetched = Some(op)

\* the index a ConstantLong operand at ip + 1 .. ip + 4 encodes, as the set of
\* the pool positions whose write_constant encoding is those four bytes
LongOperandIndexes ==
    IF ip + 5 <= Len(chunk.code)
    THEN {i \in 0..(Len(chunk.constants) - 1) :
            SubSeq(chunk.code, ip + 2, ip + 5) = to_ne_bytes(i, endian)}
    ELSE {}

\* C3: Add, Subtract, Multiply or Divide with at least two values on the
\* stack, pushed in the order x then y, replaces them by x <op> y.
C3_BinaryOperandOrder ==
    [][ (/\ status = "Running"
         /\ Fetched \in {Some(OP_ADD), Some(OP_SUBTRACT), Some(OP_MULTIPLY), Some(OP_DIVIDE)}
         /\ Len(stack) >= 2)
        => LET x == stack[Len(stack) - 1]
               y == stack[Len(stack)]
           IN  stack' = Append(SubSeq(stack, 1, Len(stack) - 2), apply_op(Fetched[1], x, y))
      ]_vars

\* C4: every interpret call starts with the instruction pointer at 0 and an
\* empty stack, whatever the earlier calls on the same VM left.
C4_InterpretStartsFresh ==
    [][ calls' # calls => (ip' = 0 /\ stack' = <<>>) ]_vars

\* C5: interpret succeeds only by executing Return, which pops the top of the
\* stack (0 when the stack is empty), prints it and halts; Return always
\* halts, and nothing is executed once the call has halted.
C5_ReturnIsOnlySuccess ==
    [][ /\ (status' = "HaltedOk" /\ status # "HaltedOk")
            => /\ Fetching(OP_RETURN)
               /\ printed' = Append(printed, IF stack = <<>> THEN F(0) ELSE Last(stack))
               /\ stack' = (IF stack = <<>> THEN <<>> ELSE Pop(stack))
               /\ ip' = ip + 1
        /\ Fetching(OP_RETURN) => status' = "HaltedOk"
        /\ (status = "HaltedOk" /\ calls' = calls)
            => /\ status' = "HaltedOk"
               /\ ip' = ip /\ stack' = stack /\ printed' = printed
      ]_vars

\* a call has returned Ok after printing 2, with an instruction left after the Return
C5_Witness ==
    /\ status = "HaltedOk"
    /\ printed = <<F(2)>>
    /\ ip < Len(chunk.code)

\* C6: a byte at the instruction pointer that is no opcode tag (8..255) ends
\* interpret with an error carrying that byte; the byte is not skipped and
\* nothing is executed afterwards.
C6_UnknownByteIsError ==
    [][ /\ (status = "Running" /\ Fetched # None /\ Fetched[1] \in 8..255)
            => /\ status' = "HaltedError"
               /\ error' = Fetched[1]
               /\ ip' = ip /\ stack' = stack /\ printed' = printed
        /\ (status = "HaltedError" /\ calls' = calls)
            => /\ status' = "HaltedError"
               /\ ip' = ip /\ stack' = stack /\ printed' = printed /\ error' = error
      ]_vars

\* interpret has returned the error for byte 255 met after a Constant, with code left after it
C6_Witness ==
    /\ status = "HaltedError"
    /\ error = 255
    /\ ip = 2
    /\ stack # <<>>
    /\ chunk.code[ip + 1] = 255
    /\ ip + 1 < Len(chunk.code)

\* C7: a fetch at or past the end of code ends interpret with a typed failure
\* (Halted-Error); it does not crash.
C7_FetchPastEndIsTypedFailure ==
    [][ (status = "Running" /\ Fetched = None) => status' = "HaltedError" ]_vars

\* C8: ConstantLong whose four operand bytes, as written by write_constant,
\* encode an index i below constants.len() pushes constants[i] and advances
\* the instruction pointer by 5, and execution goes on.
C8_ConstantLongPushes ==
    [][ \A i \in LongOperandIndexes :
          Fetching(OP_CONSTANT_LONG)
            => /\ status' = "Running"
               /\ stack' = Append(stack, chunk.constants[i + 1])
               /\ ip' = ip + 5
      ]_vars

\* C9: if i = add_constant(v) on a chunk of fewer than 256 constants and
\* Constant is executed with operand byte i, then v is pushed on top of the
\* unchanged stack and the instruction pointer advances by 2.
C9_AddConstantRoundTrip ==
    [][ \A k \in 1..Len(chunk.constants) :
          LET before == [chunk EXCEPT !.constants = SubSeq(@, 1, k - 1)]
              v == chunk.constants[k]
          IN  (/\ Fetching(OP_CONSTANT)
               /\ ~add_constant_panics(before)
               /\ get_code(chunk, ip + 1) = Some(add_constant_ret(before, v)))
                => /\ status' = "Running"
                   /\ stack' = Append(stack, v)
                   /\ ip' = ip + 2
      ]_vars

\* two constants added as 2 then 0 have been pushed back in that order by two Constant instructions
C9_Witness ==
    /\ status = "Running"
    /\ chunk.constants = <<F(2), F(0)>>
    /\ SubSeq(chunk.code, 1, 4) = <<OP_CONSTANT, 0, OP_CONSTANT, 1>>
    /\ ip = 4
    /\ stack = <<F(2), F(0)>>

\* C10: the constant pool never holds more than 256 values, and every index
\* add_constant returns is below 256 and is the position of the value appended.
C10_PoolAtMost256 ==
    /\ Len(chunk.constants) <= U8Range
    /\ (ret # -1 /\ status = "Idle") => (ret < U8Range /\ ret = Len(chunk.constants) - 1)

\* C16: Divide with a zero right-hand operand (the value pushed last) is no
\* error: the call stays Running, the two operands are replaced by one result,
\* the next instruction follows, and the result is an infinity or NaN.
C16_DivideByZeroContinues ==
    [][ (/\ Fetching(OP_DIVIDE)
         /\ Len(stack) >= 2
         /\ IsZero(Last(stack)))
        => /\ status' = "Running"
           /\ ip' = ip + 1
           /\ Len(stack') = Len(stack) - 1
           /\ Pop(stack') = Pop(Pop(stack))
           /\ Last(stack').k \in {"inf", "nan"}
      ]_vars

\* interpret's loop run to its end from the machine m
RECURSIVE run(_, _, _)
run(c, m, dbg) ==
    IF m.status # "Running" THEN m
    ELSE run(c, interpret_step(c, m, dbg), dbg)

\* what a caller can tell of a finished call: a crash, or the way it halted
\* with the instruction pointer and stack it left
outcome(m) ==
    IF m.status = "Crashed" THEN [status |-> "Crashed", ip |-> 0, stack |-> <<>>]
    ELSE [status |-> m.status, ip |-> m.ip, stack |-> m.stack]

\* C17: from every machine state of a running call, the loop with the
\* per-instruction trace ends the same way (Halted-Ok, Halted-Error or crash),
\* with the same instruction pointer and stack, as the loop without it.
C17_TraceDoesNotChangeOutcome ==
    status = "Running"
        => outcome(run(chunk, Machine, TRUE)) = outcome(run(chunk, Machine, FALSE))

\* the width of the instruction a recognized tag begins
InstructionWidth(op) ==
    CASE op = OP_CONSTANT      -> 2
      [] op = OP_CONSTANT_LONG -> 5
      [] OTHER                 -> 1

\* C20: disassemble_instruction fails at the end of code and on a byte that is
\* no opcode tag, and returns a width (1, 2 for Constant, 5 for ConstantLong)
\* only for a recognized tag: disassemble never steps over an unrecognized
\* byte as a one-byte instruction.
C20_DisassembleFailsOnUnknownByte ==
    /\ dis.state # "Idle" => disassemble_instruction(chunk, Len(chunk.code)).r = "Err"
    /\ dis.last.r # "None"
        => LET tag == chunk.code[dis.at + 1]
           IN  /\ try_from(tag) = None => dis.last.r = "Err"
               /\ dis.last.r = "Ok"
                    => /\ try_from(tag) # None
                       /\ dis.last.n = InstructionWidth(tag)
                       /\ dis.offset = dis.at + InstructionWidth(tag)

---------------------------------------------------------------------------
(* Scanner: scan_token called again and again on one source text *)

ScanChars == {"1", ".", "o", "r", "_", "\"", "=", "!", "<", ">", " ", "\n", "+", "/", "@"}

RECURSIVE SourcesWithin(_)
SourcesWithin(n) ==
    IF n = 0 THEN {<<>>}
    ELSE LET P == SourcesWithin(n - 1)
         IN  P \cup {Append(text, c) : text \in P, c \in ScanChars}

InitScan ==
    /\ chunk = NewChunk
    /\ written = <<>>
    /\ endian \in {"le", "be"}
    /\ debug \in BOOLEAN
    /\ status = "Idle"
    /\ ip = 0
    /\ stack = <<>>
    /\ printed = <<>>
    /\ error = -1
    /\ ret = -1
    /\ calls = 0
    /\ source \in SourcesWithin(MaxSrc)
    /\ current = ScannerNew(source).current
    /\ line = ScannerNew(source).line
    /\ position = ScannerNew(source).position
    /\ returned = <<>>
    /\ matching_token = NoToken
    /\ skipping = FALSE
    /\ iterations = 0
    /\ dis = DisIdle

ScanToken ==
    /\ ~skipping
    /\ Len(returned) < MaxScans
    /\ LET t == scan_token([current |-> current, line |-> line, position |-> position])
       IN  /\ current' = t.sc.current
           /\ line' = t.sc.line
           /\ position' = t.sc.position
           /\ returned' = Append(returned, t.ret)
           /\ matching_token' = t.matching_token
    /\ UNCHANGED <<chunk, written, endian, debug, status, ip, stack, printed, error, ret,
                   calls, source, skipping, iterations, dis>>

NextScan == ScanToken

\* skip_whitespace called on the scanner, one action per iteration of its loop
SkipWhitespaceBegin ==
    /\ ~skipping
    /\ iterations < MaxIterations
    /\ skipping' = TRUE
    /\ UNCHANGED <<chunk, written, endian, debug, status, ip, stack, printed, error, ret,
                   calls, source, current, line, position, returned, matching_token,
                   iterations, dis>>

SkipWhitespaceIteration ==
    /\ skipping
    /\ iterations < MaxIterations
    /\ LET t == skip_whitespace_iteration(
                    [current |-> current, line |-> line, position |-> position])
       IN  /\ current' = t.sc.current
           /\ line' = t.sc.line
           /\ position' = t.sc.position
           /\ skipping' = t.again
    /\ iterations' = iterations + 1
    /\ UNCHANGED <<chunk, written, endian, debug, status, ip, stack, printed, error, ret,
                   calls, source, returned, matching_token, dis>>

NextSkip ==
    \/ SkipWhitespaceBegin
    \/ SkipWhitespaceIteration
    \/ ScanToken

SpecSkip == InitScan /\ [][NextSkip]_vars

SpecScan == InitScan /\ [][NextScan]_vars

\* the number of characters the iterator has yielded
Consumed == Len(source) - Len(current)

LastReturned == returned[Len(returned)]

IsEOF(res) == res.r = "Ok" /\ res.tok.kind = "EOF"

\* a scan_token call has just returned
Scanned == returned' # returned

NewlinesIn(text) == Cardinality({i \in 1..Len(text) : text[i] = "\n"})

\* C11: a scan_token call begun with no pending character returns EOF, so does
\* every later call, and EOF is not returned while characters remain.
C11_EofIffSourceConsumed ==
    [][ Scanned =>
          /\ current = <<>> => IsEOF(returned'[Len(returned')])
          /\ IsEOF(returned'[Len(returned')]) => current' = <<>>
      ]_vars

\* the token kinds of a source made of "1", "+" and blanks, in source order
RECURSIVE ExpectedKinds(_)
ExpectedKinds(text) ==
    IF text = <<>> THEN <<>>
    ELSE IF Head(text) = " " THEN ExpectedKinds(Tail(text))
    ELSE IF Head(text) = "+" THEN <<"Plus">> \o ExpectedKinds(Tail(text))
    ELSE IF Len(text) >= 2 /\ text[2] = "1" THEN ExpectedKinds(Tail(text))
    ELSE <<"Number">> \o ExpectedKinds(Tail(text))

\* C12: for a source of valid lexemes separated by whitespace, successive
\* scan_token calls return one token per lexeme, in source order, then EOF
\* (stated for the lexemes "+" and runs of the digit "1").
C12_OneTokenPerLexeme ==
    (/\ \A i \in 1..Len(source) : source[i] \in {"1", "+", " "}
     /\ ExpectedKinds(source) # <<>>)
        => \A i \in 1..Len(returned) :
             /\ returned[i].r = "Ok"
             /\ returned[i].tok.kind =
                    (IF i <= Len(ExpectedKinds(source)) THEN ExpectedKinds(source)[i] ELSE "EOF")

\* the position in text of the first closing quote, 0 when there is none
RECURSIVE ClosingQuote(_, _)
ClosingQuote(text, i) ==
    IF i > Len(text) THEN 0
    ELSE IF text[i] = "\"" THEN i ELSE ClosingQuote(text, i + 1)

\* C13: on an opening double quote scan_token returns UnterminatedString if
\* and only if the input ends before a closing quote; with a closing quote it
\* consumes the characters up to and including it and returns a String token.
C13_UnterminatedIffNoClosingQuote ==
    [][ (Scanned /\ current # <<>> /\ Head(current) = "\"")
          => LET rest == Tail(current)
                 q == ClosingQuote(rest, 1)
                 res == returned'[Len(returned')]
             IN  /\ (res.r = "Err" /\ res.tok.kind = "UnterminatedString") <=> (q = 0)
                 /\ q # 0 => /\ res.r = "Ok" /\ res.tok.kind = "String"
                             /\ current' = SubSeq(rest, q + 1, Len(rest))
      ]_vars

\* the longest prefix of text made of alphanumerics and underscores
RECURSIVE WordRun(_)
WordRun(text) ==
    IF text # <<>> /\ (is_ascii_alphanumeric(Head(text)) \/ Head(text) = "_")
    THEN <<Head(text)>> \o WordRun(Tail(text))
    ELSE <<>>

\* C14: for a maximal run of alphanumerics/underscores starting with a letter,
\* the token scan_token builds is the Keyword of that word if and only if the
\* whole run, first character included, is a reserved word, and an Identifier
\* otherwise.
C14_KeywordIffReservedWord ==
    [][ (Scanned /\ current # <<>> /\ is_ascii_alphabetic(Head(current)))
          => LET word == WordRun(current)
             IN  IF word \in Keywords
                 THEN matching_token'.kind = "Keyword" /\ matching_token'.kw = word
                 ELSE matching_token'.kind = "Identifier"
      ]_vars

\* C15: the (start, end) pair of an Identifier, String or Number token
\* delimits exactly the literal's text, the characters its call consumed:
\* as a 0-based half-open range, a 1-based half-open range or a 1-based
\* inclusive range of the source.
C15_LiteralSpanIsItsText ==
    [][ (Scanned /\ matching_token'.kind \in {"Identifier", "String", "Number"})
          => LET first == Consumed + 1
                 last == Len(source) - Len(current')
                 start == matching_token'.start
                 end == matching_token'.end
             IN  \/ start = first - 1 /\ end = last
                 \/ start = first /\ end = last + 1
                 \/ start = first /\ end = last
      ]_vars

\* C18: on '!', '=', '<' or '>' scan_token consumes two characters and returns
\* the two-character token when the next character is '=', and otherwise (also
\* at end of input) consumes one character and returns the one-character token.
C18_OperatorLookahead ==
    [][ (Scanned /\ current # <<>> /\ Head(current) \in {"!", "=", "<", ">"})
          => LET c == Head(current)
                 res == returned'[Len(returned')]
                 short == CASE c = "!" -> "Bang" [] c = "=" -> "Equal"
                            [] c = "<" -> "Less" [] c = ">" -> "Greater"
                 long == CASE c = "!" -> "BangEqual" [] c = "=" -> "EqualEqual"
                           [] c = "<" -> "LessEqual" [] c = ">" -> "GreaterEqual"
             IN  IF Len(current) >= 2 /\ current[2] = "="
                 THEN /\ Len(current') = Len(current) - 2
                      /\ res.r = "Ok" /\ res.tok.kind = long
                 ELSE /\ Len(current') = Len(current) - 1
                      /\ res.r = "Ok" /\ res.tok.kind = short
      ]_vars

\* C19: position minus its initial value is the number of characters consumed
\* so far, and line minus its initial value the number of newlines consumed.
C19_PositionAndLineCount ==
    /\ position - ScannerNew(source).position = Consumed
    /\ line - ScannerNew(source).line = NewlinesIn(SubSeq(source, 1, Consumed))

\* C21: scanning terminates: every iteration of the whitespace/comment skipping
\* loop consumes a character or leaves the loop (also on a '/' not followed by
\* '/' and on a // comment), and every scan_token call returns, with EOF or a
\* lexical error once nothing is left to scan.
C21_SkipLoopProgresses ==
    [][ /\ iterations' # iterations
            => \/ Len(current') < Len(current)
               \/ ~skipping'
        /\ (Scanned /\ current = <<>>)
            => \/ IsEOF(returned'[Len(returned')])
               \/ returned'[Len(returned')].r = "Err"
      ]_vars

====
